---- MODULE Spec2Model ----
(***************************************************************************)
(* State-machine model of src/thisonewebsite/src/App.tsx: the App          *)
(* component's React state, its effects, its event handlers and the        *)
(* asynchronous callbacks of the identity collaborator, together with the  *)
(* browser's localStorage entries the component mirrors its state to.      *)
(*                                                                         *)
(* Strings the code inspects (e-mail addresses, comment text) are          *)
(* sequences of atoms, so that split('@') and trim() are computed.         *)
(* A step is either a handler followed by React's re-render and commit,    *)
(* or the flush of the passive effects of the last commit followed by the  *)
(* re-render their state updates cause.                                    *)
(***************************************************************************)
EXTENDS Integers, Sequences, FiniteSets, TLC

VARIABLES
    catalog,        \* ALL_VIDEOS
    store,          \* localStorage: key -> raw entry
    activeTab,      \* useState<TabKey>
    currentIndex,   \* useState(0)
    currentUser,    \* useState<CurrentUser | null>
    likes,          \* useState<LikesState>
    userLikes,      \* useState<UserLikesState>
    comments,       \* useState<Comment[]>
    avatars,        \* useState<UserAvatarState>
    authError,      \* useState<string | null>
    authSuccess,    \* useState<string | null>
    authLoading,    \* useState(false)
    touchStart,     \* touchStartRef.current
    pending,        \* passive effects of the last commit that have not run yet
    crashed,        \* a render threw: React unmounted the tree
    initAuth,       \* supabase.auth.getUser() of initAuth is in flight
    authReq,        \* the signUp / signInWithPassword call in flight, or Null
    logoutReq,      \* number of supabase.auth.signOut() calls in flight
    avatarRead,     \* the FileReader read in flight, or Null
    now,            \* the wall clock, Date.now()
    writeFailures,  \* number of localStorage.setItem calls that have thrown
    last,           \* history: the operation of the last step and its outcome
    run             \* history: the run of consecutive like toggles / next clicks

vars == <<catalog, store, activeTab, currentIndex, currentUser, likes, userLikes,
          comments, avatars, authError, authSuccess, authLoading, touchStart,
          pending, crashed, initAuth, authReq, logoutReq, avatarRead, now,
          writeFailures, last, run>>

----------------------------------------------------------------------------
(* Bounds of the model. *)

MaxTab == 3             \* videos per category in the catalogs tried
MaxClock == 1           \* the clock ticks at most this many times
MaxComments == 2        \* comments in the list
MaxWriteFailures == 1   \* localStorage.setItem calls that throw
MaxLogoutReq == 1       \* signOut calls in flight at once
MaxRun == 3             \* consecutive next clicks that are counted

----------------------------------------------------------------------------
(* JavaScript values. *)

Null == [t |-> "null"]
JNum == [t |-> "num"]
Obj(m) == [t |-> "obj", m |-> m]
Arr(a) == [t |-> "arr", a |-> a]
EmptyMap == [k \in {} |-> 0]

RECURSIVE SetToSeq(_)
SetToSeq(S) ==
    IF S = {} THEN <<>>
    ELSE LET x == CHOOSE y \in S : TRUE IN <<x>> \o SetToSeq(S \ {x})

Range(s) == { s[i] : i \in DOMAIN s }

\* x[k] ?? d for a non-null x: a missing key, and any key of a number, is undefined
Get(x, k, d) == IF x.t = "obj" /\ k \in DOMAIN x.m THEN x.m[k] ELSE d

\* { ...x, [k]: val }
SpreadSet(x, k, val) ==
    LET m == IF x.t = "obj" THEN x.m ELSE EmptyMap
    IN  Obj([j \in DOMAIN m \cup {k} |-> IF j = k THEN val ELSE m[j]])

\* list.filter(id => id !== v)
RECURSIVE FilterOut(_, _)
FilterOut(list, v) ==
    IF list = <<>> THEN <<>>
    ELSE IF Head(list) = v THEN FilterOut(Tail(list), v)
         ELSE <<Head(list)>> \o FilterOut(Tail(list), v)

Includes(list, v) == \E i \in DOMAIN list : list[i] = v

Max(a, b) == IF a >= b THEN a ELSE b

----------------------------------------------------------------------------
(* Strings. *)

Space == " "

RECURSIVE TrimStart(_)
TrimStart(s) ==
    IF s # <<>> /\ Head(s) = Space THEN TrimStart(Tail(s)) ELSE s

RECURSIVE TrimEnd(_)
TrimEnd(s) ==
    IF s # <<>> /\ s[Len(s)] = Space THEN TrimEnd(SubSeq(s, 1, Len(s) - 1)) ELSE s

\* String.prototype.trim
Trim(s) == TrimEnd(TrimStart(s))

\* email.split('@')[0]
RECURSIVE BeforeAt(_)
BeforeAt(s) ==
    IF s = <<>> \/ Head(s) = "@" THEN <<>> ELSE <<Head(s)>> \o BeforeAt(Tail(s))

\* a null e-mail and '' take the same branches everywhere: both are <<>>
deriveUsername(email) ==
    IF email = <<>> THEN <<"mystery-creature">>
    ELSE LET name == BeforeAt(email) IN IF name # <<>> THEN name ELSE email

----------------------------------------------------------------------------
(* The catalog. *)

VideoIdPool == <<"wowfinalfinal1", "wowfinalfinal2", "wowfinalfinal3",
                 "wowfinalfinal4", "wowfinalfinal5", "wowfinalfinal6",
                 "wowfinalfinal7", "wowfinalfinal8", "wowfinalfinal9",
                 "wowfinalfinal10">>

\* nT TRENDING videos followed by nY YOUR videos
MkCatalog(nT, nY) ==
    [i \in 1..(nT + nY) |->
        [id |-> VideoIdPool[i],
         category |-> IF i <= nT THEN "TRENDING" ELSE "YOUR"]]

ALL_VIDEOS == MkCatalog(2, 2)

Catalogs == { MkCatalog(nT, nY) : nT \in 0..MaxTab, nY \in 0..MaxTab }

VideoIds == { ALL_VIDEOS[i].id : i \in DOMAIN ALL_VIDEOS }

RECURSIVE FilterCategory(_, _)
FilterCategory(videos, cat) ==
    IF videos = <<>> THEN <<>>
    ELSE IF Head(videos).category = cat
         THEN <<Head(videos)>> \o FilterCategory(Tail(videos), cat)
         ELSE FilterCategory(Tail(videos), cat)

\* ALL_VIDEOS.filter(v => activeTab === 'trending' ? ... : ...)
FilteredList(cat, tab) ==
    FilterCategory(cat, IF tab = "trending" THEN "TRENDING" ELSE "YOUR")

\* currentList[currentIndex] ?? currentList[0] ?? null
CurrentVideoOf(cat, tab, idx) ==
    LET list == FilteredList(cat, tab)
    IN  IF idx + 1 \in DOMAIN list THEN list[idx + 1]
        ELSE IF list # <<>> THEN list[1] ELSE Null

----------------------------------------------------------------------------
(* The persistent store. *)

LIKES_KEY == "wowsite_likes_v1"
USER_LIKES_KEY == "wowsite_userlikes_v1"
COMMENTS_KEY == "wowsite_comments_v1"
USER_AVATARS_KEY == "wowsite_user_avatars_v1"
StoreKeys == {LIKES_KEY, USER_LIKES_KEY, COMMENTS_KEY, USER_AVATARS_KEY}

\* raw entries: getItem's null, the empty string, text that is not JSON, JSON text
Missing == [r |-> "missing"]
EmptyText == [r |-> "empty"]
Garbage == [r |-> "garbage"]
JsonText(j) == [r |-> "json", j |-> j]

\* JSON.stringify: an object becomes the list of its members
Stringify(x) ==
    CASE x.t = "obj" ->
            LET keys == SetToSeq(DOMAIN x.m)
            IN  [k |-> "object",
                 members |-> [i \in DOMAIN keys |-> [key |-> keys[i], val |-> x.m[keys[i]]]]]
      [] x.t = "arr" -> [k |-> "array", items |-> x.a]
      [] x.t = "null" -> [k |-> "null"]
      [] OTHER -> [k |-> "number"]

\* JSON.parse of well-formed JSON: of a repeated key the last member stays
ParseJson(j) ==
    CASE j.k = "object" ->
            LET keys == { j.members[i].key : i \in DOMAIN j.members }
                lastOf(key) == CHOOSE i \in DOMAIN j.members :
                                  /\ j.members[i].key = key
                                  /\ \A n \in DOMAIN j.members :
                                        j.members[n].key = key => n <= i
            IN  Obj([key \in keys |-> j.members[lastOf(key)].val])
      [] j.k = "array" -> Arr(j.items)
      [] j.k = "null" -> Null
      [] OTHER -> JNum

loadFromStorage(st, key, fallback) ==
    LET raw == st[key]
    IN  IF raw.r \in {"missing", "empty"} THEN fallback
        ELSE IF raw.r = "garbage" THEN fallback
        ELSE ParseJson(raw.j)

\* localStorage.setItem(key, JSON.stringify(value)); a throw is swallowed
saveToStorage(st, key, value, ok) ==
    IF ok THEN [st EXCEPT ![key] = JsonText(Stringify(value))] ELSE st

----------------------------------------------------------------------------
(* The identity collaborator's accounts and the CurrentUser made of one. *)

AuthUsers ==
    { [id |-> "u1", email |-> <<"alice", "@", "x.com">>, metaUsername |-> <<"alice">>],
      [id |-> "u2", email |-> <<"bob", "@", "y.org">>, metaUsername |-> <<>>] }

\* (u.user_metadata && u.user_metadata.username) || deriveUsername(u.email ?? null)
UsernameOf(u) ==
    IF u.metaUsername # <<>> THEN u.metaUsername ELSE deriveUsername(u.email)

ToCurrentUser(u) == [id |-> u.id, email |-> u.email, username |-> UsernameOf(u)]

Usernames == { UsernameOf(u) : u \in AuthUsers }

NoMsg == ""
MsgEnterBoth == "Enter both an email and password."
MsgCollabError == "error.message"
MsgAccountCreated == "Account created."
MsgSignupSent == "Sign-up request sent."
MsgWelcomeBack == "Welcome back! You are now signed in."
MsgLoggedOut == "You have been logged out."
MsgLikeLogin == "You need to be logged in to like videos."
MsgCommentLogin == "You need to be logged in to comment."

----------------------------------------------------------------------------
(* Rendering. *)

\* App's render reads likes[videoId], comments.filter(...), and for a signed-in
\* user userLikes[username], comments.filter(...) and avatars[id]: a null
\* (or, for comments, anything but an array) makes it throw
RenderThrows(lk, ul, cm, av, user, video) ==
    \/ video # Null /\ (lk.t = "null" \/ cm.t # "arr")
    \/ user # Null /\ (ul.t = "null" \/ cm.t # "arr" \/ av.t = "null")

Live == ~crashed /\ pending = {}

\* the re-render and commit after a handler's state updates; eff are the
\* effects whose dependencies changed
Rendered(eff) ==
    /\ crashed' = RenderThrows(likes', userLikes', comments', avatars', currentUser',
                               CurrentVideoOf(catalog, activeTab', currentIndex'))
    /\ pending' = IF crashed' THEN {} ELSE eff

NoRun == [kind |-> "none"]
Did(op, arg, outcome) == [op |-> op, arg |-> arg, outcome |-> outcome]

MountEffects == {"hydrate", "likes", "userLikes", "comments", "avatars", "auth", "index"}

EffectOf(key) ==
    CASE key = LIKES_KEY -> "likes"
      [] key = USER_LIKES_KEY -> "userLikes"
      [] key = COMMENTS_KEY -> "comments"
      [] OTHER -> "avatars"

\* the component's state after useState's initial values: the first render
Mounted ==
    /\ activeTab = "trending"
    /\ currentIndex = 0
    /\ currentUser = Null
    /\ likes = Obj(EmptyMap)
    /\ userLikes = Obj(EmptyMap)
    /\ comments = Arr(<<>>)
    /\ avatars = Obj(EmptyMap)
    /\ authError = NoMsg
    /\ authSuccess = NoMsg
    /\ authLoading = FALSE
    /\ touchStart = Null
    /\ pending = MountEffects
    /\ crashed = FALSE
    /\ initAuth = FALSE
    /\ authReq = Null
    /\ logoutReq = 0
    /\ avatarRead = Null
    /\ last = Did("mount", "", "")
    /\ run = NoRun

EmptyStore == [k \in StoreKeys |-> Missing]

Init ==
    /\ catalog = ALL_VIDEOS
    /\ store = EmptyStore
    /\ now = 0
    /\ writeFailures = 0
    /\ Mounted

----------------------------------------------------------------------------
(* Effects. *)

\* a validity effect that is off by one
indexEffectOffByOne(idx, list) == IF idx > Len(list) THEN 0 ELSE idx

\* lines 198-203: the index the validity effect leaves
indexEffect(idx, list) == IF idx >= Len(list) THEN 0 ELSE idx

\* the value the persist effect of key serialises
StateOf(key) ==
    CASE key = LIKES_KEY -> likes
      [] key = USER_LIKES_KEY -> userLikes
      [] key = COMMENTS_KEY -> comments
      [] OTHER -> avatars

\* The passive effects of the last commit, in the order the component declares
\* them, then the re-render their state updates cause.  ok[k] says whether the
\* setItem of key k goes through.
FlushEffects ==
    /\ ~crashed
    /\ pending # {}
    /\ \E ok \in [StoreKeys -> BOOLEAN] :
         LET failed == { k \in StoreKeys : ~ok[k] }
             hydrate == "hydrate" \in pending
             list == FilteredList(catalog, activeTab)
         IN  /\ \A k \in failed : EffectOf(k) \in pending
             /\ writeFailures + Cardinality(failed) <= MaxWriteFailures
             /\ writeFailures' = writeFailures + Cardinality(failed)
             /\ likes' = IF hydrate THEN loadFromStorage(store, LIKES_KEY, Obj(EmptyMap))
                         ELSE likes
             /\ userLikes' = IF hydrate
                             THEN loadFromStorage(store, USER_LIKES_KEY, Obj(EmptyMap))
                             ELSE userLikes
             /\ comments' = IF hydrate THEN loadFromStorage(store, COMMENTS_KEY, Arr(<<>>))
                            ELSE comments
             /\ avatars' = IF hydrate
                           THEN loadFromStorage(store, USER_AVATARS_KEY, Obj(EmptyMap))
                           ELSE avatars
             /\ store' = [k \in StoreKeys |->
                            IF EffectOf(k) \in pending
                            THEN saveToStorage(store, k, StateOf(k), ok[k])[k]
                            ELSE store[k]]
             /\ initAuth' = IF "auth" \in pending THEN TRUE ELSE initAuth
             /\ currentIndex' = IF "index" \in pending
                                THEN indexEffect(currentIndex, list) ELSE currentIndex
             /\ UNCHANGED <<catalog, activeTab, currentUser, authError, authSuccess,
                            authLoading, touchStart, authReq, logoutReq, avatarRead,
                            now, run>>
             /\ last' = Did("effects", "", IF hydrate THEN "hydrated" ELSE "")
             /\ Rendered((IF hydrate THEN {"likes", "userLikes", "comments", "avatars"}
                          ELSE {})
                         \cup (IF currentIndex' # currentIndex THEN {"index"} ELSE {}))

\* the same with a store that takes every write
FlushWritten == FlushEffects /\ writeFailures' = writeFailures

\* the page is loaded again: memory is lost, the store stays
Reload ==
    /\ last.op # "mount"
    /\ UNCHANGED <<catalog, store, now, writeFailures>>
    /\ activeTab' = "trending"
    /\ currentIndex' = 0
    /\ currentUser' = Null
    /\ likes' = Obj(EmptyMap)
    /\ userLikes' = Obj(EmptyMap)
    /\ comments' = Arr(<<>>)
    /\ avatars' = Obj(EmptyMap)
    /\ authError' = NoMsg
    /\ authSuccess' = NoMsg
    /\ authLoading' = FALSE
    /\ touchStart' = Null
    /\ pending' = MountEffects
    /\ crashed' = FALSE
    /\ initAuth' = FALSE
    /\ authReq' = Null
    /\ logoutReq' = 0
    /\ avatarRead' = Null
    /\ last' = Did("mount", "", "")
    /\ run' = NoRun

----------------------------------------------------------------------------
(* Likes. *)

\* lines 303-311: the user's list with videoId removed or appended
toggleUserLikes(ul, username, videoId) ==
    LET existingForUser == Get(ul, username, <<>>)
        hasLiked == Includes(existingForUser, videoId)
    IN  SpreadSet(ul, username,
                  IF hasLiked THEN FilterOut(existingForUser, videoId)
                  ELSE Append(existingForUser, videoId))

\* a toggle that counts every click as a like
toggleLikesAlwaysIncrements(lk, ul, username, videoId) ==
    SpreadSet(lk, videoId, Get(lk, videoId, 0) + 1)

\* a toggle whose unlike forgets the count
toggleLikesNeverDecrements(lk, ul, username, videoId) ==
    LET hasLiked == Includes(Get(ul, username, <<>>), videoId)
        currentCount == Get(lk, videoId, 0)
    IN  SpreadSet(lk, videoId, IF hasLiked THEN currentCount ELSE currentCount + 1)

\* lines 313-317: the count decremented (floored at zero) or incremented
toggleLikes(lk, ul, username, videoId) ==
    LET hasLiked == Includes(Get(ul, username, <<>>), videoId)
        currentCount == Get(lk, videoId, 0)
    IN  SpreadSet(lk, videoId,
                  IF hasLiked THEN Max(0, currentCount - 1) ELSE currentCount + 1)

\* a rejection that leaves an earlier success message on screen
rejectedLikeKeepsSuccess(error, success) == <<MsgLikeLogin, success>>

\* lines 297-298: the messages <<authError, authSuccess>> of a rejected like
rejectedLike(error, success) == <<MsgLikeLogin, NoMsg>>

toggleLike(videoId) ==
    /\ Live
    /\ IF currentUser = Null
       THEN /\ authError' = rejectedLike(authError, authSuccess)[1]
            /\ authSuccess' = rejectedLike(authError, authSuccess)[2]
            /\ UNCHANGED <<likes, userLikes>>
            /\ last' = Did("toggleLike", videoId, "rejected")
            /\ run' = NoRun
       ELSE IF userLikes.t = "null" \/ likes.t = "null"
       THEN \* a TypeError leaves the handler before any setState
            /\ UNCHANGED <<likes, userLikes, authError, authSuccess>>
            /\ last' = Did("toggleLike", videoId, "threw")
            /\ run' = NoRun
       ELSE /\ userLikes' = toggleUserLikes(userLikes, currentUser.username, videoId)
            /\ likes' = toggleLikes(likes, userLikes, currentUser.username, videoId)
            /\ UNCHANGED <<authError, authSuccess>>
            /\ last' = Did("toggleLike", videoId, "toggled")
            /\ run' = IF /\ run.kind = "toggle" /\ run.v = videoId
                         /\ run.username = currentUser.username /\ run.n = 1
                      THEN [run EXCEPT !.n = 2]
                      ELSE [kind |-> "toggle", v |-> videoId,
                            username |-> currentUser.username, n |-> 1,
                            likes |-> likes, userLikes |-> userLikes]
    /\ UNCHANGED <<catalog, store, activeTab, currentIndex, currentUser, comments,
                   avatars, authLoading, touchStart, initAuth, authReq, logoutReq,
                   avatarRead, now, writeFailures>>
    /\ Rendered(IF last'.outcome = "toggled" THEN {"likes", "userLikes"} ELSE {})
----------------------------------------------------------------------------
(* Authentication. *)

Emails == { u.email : u \in AuthUsers } \cup { <<>>, <<Space>> }
Passwords == { <<>>, <<"pw">> }

\* lines 206-219: up to the await
handleAuthSubmit(mode, emailInput, passwordInput) ==
    /\ Live
    /\ currentUser = Null       \* the form is rendered for a visitor only
    /\ ~authLoading             \* the submit button is disabled while loading
    /\ authReq = Null
    /\ authSuccess' = NoMsg
    /\ LET trimmedEmail == Trim(emailInput)
           trimmedPass == Trim(passwordInput)
       IN  IF trimmedEmail = <<>> \/ trimmedPass = <<>>
           THEN /\ authError' = MsgEnterBoth
                /\ UNCHANGED <<authLoading, authReq>>
                /\ last' = Did("handleAuthSubmit", mode, "invalid")
           ELSE /\ authError' = NoMsg
                /\ authLoading' = TRUE
                /\ authReq' = [mode |-> mode, email |-> trimmedEmail]
                /\ last' = Did("handleAuthSubmit", mode, "pending")
    /\ run' = NoRun
    /\ UNCHANGED <<catalog, store, activeTab, currentIndex, currentUser, likes,
                   userLikes, comments, avatars, touchStart, initAuth, logoutReq,
                   avatarRead, now, writeFailures>>
    /\ Rendered({})

\* lines 220-286: after the await.  The collaborator answers with an error, with
\* the account of the e-mail, with no user (sign-up awaiting confirmation), or
\* the call rejects.
authSubmitResolve(outcome) ==
    /\ Live
    /\ authReq # Null
    /\ authReq' = Null
    /\ authLoading' = FALSE     \* finally
    /\ CASE outcome = "error" ->
                /\ authError' = MsgCollabError
                /\ UNCHANGED <<currentUser, authSuccess>>
         [] outcome = "user" ->
                /\ \E u \in AuthUsers :
                      /\ u.email = authReq.email
                      /\ currentUser' = ToCurrentUser(u)
                /\ authSuccess' = IF authReq.mode = "signup" THEN MsgAccountCreated
                                  ELSE MsgWelcomeBack
                /\ UNCHANGED authError
         [] outcome = "nouser" ->
                /\ authSuccess' = IF authReq.mode = "signup" THEN MsgSignupSent
                                  ELSE authSuccess
                /\ UNCHANGED <<currentUser, authError>>
         [] OTHER ->
                UNCHANGED <<currentUser, authError, authSuccess>>
    /\ last' = Did("handleAuthSubmit", authReq.mode, outcome)
    /\ run' = NoRun
    /\ UNCHANGED <<catalog, store, activeTab, currentIndex, likes, userLikes,
                   comments, avatars, touchStart, initAuth, logoutReq, avatarRead,
                   now, writeFailures>>
    /\ Rendered({})

\* a lookup whose answer is dropped when a sign-out has completed meanwhile
initAuthResolveCancelled(outcome) ==
    /\ Live
    /\ initAuth
    /\ initAuth' = FALSE
    /\ IF outcome = "none" \/ authSuccess = MsgLoggedOut THEN UNCHANGED currentUser
       ELSE \E u \in AuthUsers : u.id = outcome /\ currentUser' = ToCurrentUser(u)
    /\ last' = Did("initAuth", "", outcome)
    /\ run' = NoRun
    /\ UNCHANGED <<catalog, store, activeTab, currentIndex, likes, userLikes,
                   comments, avatars, authError, authSuccess, authLoading,
                   touchStart, authReq, logoutReq, avatarRead, now, writeFailures>>
    /\ Rendered({})

\* lines 154-168: getUser answers with a user, or with none or an error
initAuthResolve(outcome) ==
    /\ Live
    /\ initAuth
    /\ initAuth' = FALSE
    /\ IF outcome = "none" THEN UNCHANGED currentUser
       ELSE \E u \in AuthUsers : u.id = outcome /\ currentUser' = ToCurrentUser(u)
    /\ last' = Did("initAuth", "", outcome)
    /\ run' = NoRun
    /\ UNCHANGED <<catalog, store, activeTab, currentIndex, likes, userLikes,
                   comments, avatars, authError, authSuccess, authLoading,
                   touchStart, authReq, logoutReq, avatarRead, now, writeFailures>>
    /\ Rendered({})

\* lines 174-189: the onAuthStateChange callback
onAuthStateChange(session) ==
    /\ Live
    /\ IF session = "none" THEN currentUser' = Null
       ELSE \E u \in AuthUsers : u.id = session /\ currentUser' = ToCurrentUser(u)
    /\ last' = Did("onAuthStateChange", "", session)
    /\ run' = NoRun
    /\ UNCHANGED <<catalog, store, activeTab, currentIndex, likes, userLikes,
                   comments, avatars, authError, authSuccess, authLoading,
                   touchStart, initAuth, authReq, logoutReq, avatarRead, now,
                   writeFailures>>
    /\ Rendered({})

\* line 290: up to the await
handleLogout ==
    /\ Live
    /\ currentUser # Null       \* the button is rendered for a signed-in user only
    /\ logoutReq < MaxLogoutReq
    /\ logoutReq' = logoutReq + 1
    /\ last' = Did("handleLogout", "", "pending")
    /\ run' = NoRun
    /\ UNCHANGED <<catalog, store, activeTab, currentIndex, currentUser, likes,
                   userLikes, comments, avatars, authError, authSuccess,
                   authLoading, touchStart, initAuth, authReq, avatarRead, now,
                   writeFailures>>
    /\ Rendered({})

\* what runs after `await supabase.auth.signOut()`: nothing when it rejects
afterSignOut(outcome, user, success) ==
    IF outcome = "reject" THEN <<user, success>> ELSE <<Null, MsgLoggedOut>>

\* lines 290-293: signOut resolves (with or without an error result) or rejects
handleLogoutResolve(outcome) ==
    /\ Live
    /\ logoutReq > 0
    /\ logoutReq' = logoutReq - 1
    /\ currentUser' = afterSignOut(outcome, currentUser, authSuccess)[1]
    /\ authSuccess' = afterSignOut(outcome, currentUser, authSuccess)[2]
    /\ last' = Did("handleLogout", "", outcome)
    /\ run' = NoRun
    /\ UNCHANGED <<catalog, store, activeTab, currentIndex, likes, userLikes,
                   comments, avatars, authError, authLoading, touchStart,
                   initAuth, authReq, avatarRead, now, writeFailures>>
    /\ Rendered({})

----------------------------------------------------------------------------
(* Comments. *)

Texts == { <<>>, <<Space>>, <<"nice">>, <<Space, "nice", Space>> }

\* a comment that keeps the text as typed
newCommentUntrimmed(videoId, user, text, time) ==
    [id |-> <<videoId, time>>, videoId |-> videoId, author |-> user.username,
     text |-> text, createdAt |-> time]

\* lines 330-339: the comment built from the handler's arguments
newComment(videoId, user, text, time) ==
    [id |-> <<videoId, time>>, videoId |-> videoId, author |-> user.username,
     text |-> Trim(text), createdAt |-> time]

\* a handler that looks at the text before it looks at the user
addCommentOutcomeTextFirst(user, text) ==
    IF Trim(text) = <<>> THEN "empty"
    ELSE IF user = Null THEN "rejected"
    ELSE "added"

\* lines 324-331: which way the handler goes
addCommentOutcome(user, text) ==
    IF user = Null THEN "rejected"
    ELSE IF Trim(text) = <<>> THEN "empty"
    ELSE "added"

DidComment(op, videoId, outcome, text) ==
    [op |-> op, arg |-> videoId, outcome |-> outcome, text |-> text]

\* lines 323-342, as op
addComment(op, videoId, text) ==
    /\ Live
    /\ LET outcome == addCommentOutcome(currentUser, text)
       IN  /\ CASE outcome = "rejected" ->
                     /\ authError' = MsgCommentLogin
                     /\ authSuccess' = NoMsg
                     /\ UNCHANGED comments
                [] outcome = "empty" ->
                     UNCHANGED <<comments, authError, authSuccess>>
                [] OTHER ->
                     /\ comments.t = "arr"
                     /\ Len(comments.a) < MaxComments
                     /\ comments' = Arr(Append(comments.a,
                                               newComment(videoId, currentUser, text, now)))
                     /\ UNCHANGED <<authError, authSuccess>>
           /\ last' = DidComment(op, videoId, outcome, text)
    /\ run' = NoRun
    /\ UNCHANGED <<catalog, store, activeTab, currentIndex, currentUser, likes,
                   userLikes, avatars, authLoading, touchStart, initAuth, authReq,
                   logoutReq, avatarRead, now, writeFailures>>
    /\ Rendered(IF last'.outcome = "added" THEN {"comments"} ELSE {})

handleAddComment(videoId, text) == addComment("handleAddComment", videoId, text)

\* lines 722-727 and 668: the comment form of the video shown; input that is
\* empty after trimming never reaches handleAddComment
handleSubmit(text) ==
    /\ CurrentVideoOf(catalog, activeTab, currentIndex) # Null
    /\ IF Trim(text) = <<>>
       THEN /\ Live
            /\ last' = DidComment("handleSubmit", "", "ignored", text)
            /\ run' = NoRun
            /\ UNCHANGED <<catalog, store, activeTab, currentIndex, currentUser,
                           likes, userLikes, comments, avatars, authError,
                           authSuccess, authLoading, touchStart, initAuth, authReq,
                           logoutReq, avatarRead, now, writeFailures>>
            /\ Rendered({})
       ELSE addComment("handleSubmit",
                       CurrentVideoOf(catalog, activeTab, currentIndex).id, text)

\* Date.now() moves on
Tick ==
    /\ Live
    /\ now < MaxClock
    /\ now' = now + 1
    /\ last' = Did("tick", "", "")
    /\ UNCHANGED <<catalog, store, activeTab, currentIndex, currentUser, likes,
                   userLikes, comments, avatars, authError, authSuccess,
                   authLoading, touchStart, pending, crashed, initAuth, authReq,
                   logoutReq, avatarRead, writeFailures, run>>

\* line 349: the comparator handed to sort; it never answers 0
compareCreatedAt(a, b) == IF a.createdAt > b.createdAt THEN 1 ELSE -1

\* line 348: the positions in the list of the comments of the video
filterVideo(cm, videoId) == { i \in DOMAIN cm.a : cm.a[i].videoId = videoId }

\* line 349: what sort can make of the filtered comments, as sequences of their
\* positions in the list.  The comparator is not a consistent comparison
\* function (it orders two comments of one createdAt both ways), so the
\* language leaves the order to the engine: every arrangement in which the
\* comparator puts each comment before the ones after it is an outcome.
sortOutcomes(cm, positions) ==
    { out \in [1..Cardinality(positions) -> positions] :
        /\ \A i, j \in DOMAIN out : i # j => out[i] # out[j]
        /\ \A i, j \in DOMAIN out :
              i < j => compareCreatedAt(cm.a[out[i]], cm.a[out[j]]) = -1 }

\* lines 346-349 and 666: the comments the card of the video is given
commentsForVideo(videoId) ==
    /\ ~crashed
    /\ comments.t = "arr"
    /\ \E out \in sortOutcomes(comments, filterVideo(comments, videoId)) :
          last' = [op |-> "commentsForVideo", arg |-> videoId, outcome |-> "",
                   shown |-> out]
    /\ UNCHANGED <<catalog, store, activeTab, currentIndex, currentUser, likes,
                   userLikes, comments, avatars, authError, authSuccess,
                   authLoading, touchStart, pending, crashed, initAuth, authReq,
                   logoutReq, avatarRead, now, writeFailures, run>>

----------------------------------------------------------------------------
(* Avatars. *)

DataUrl == "data:image"

\* lines 424-437: up to readAsDataURL
handleAvatarChange(hasFile) ==
    /\ Live
    /\ currentUser # Null       \* the input is rendered for a signed-in user only
    /\ avatarRead = Null
    /\ avatarRead' = IF hasFile THEN [id |-> currentUser.id] ELSE Null
    /\ last' = Did("handleAvatarChange", "", IF hasFile THEN "reading" ELSE "nofile")
    /\ run' = NoRun
    /\ UNCHANGED <<catalog, store, activeTab, currentIndex, currentUser, likes,
                   userLikes, comments, avatars, authError, authSuccess,
                   authLoading, touchStart, initAuth, authReq, logoutReq, now,
                   writeFailures>>
    /\ Rendered({})

\* lines 429-435: reader.onload
avatarOnLoad ==
    /\ Live
    /\ avatarRead # Null
    /\ avatars' = SpreadSet(avatars, avatarRead.id, DataUrl)
    /\ avatarRead' = Null
    /\ last' = Did("avatarOnLoad", "", "")
    /\ run' = NoRun
    /\ UNCHANGED <<catalog, store, activeTab, currentIndex, currentUser, likes,
                   userLikes, comments, authError, authSuccess, authLoading,
                   touchStart, initAuth, authReq, logoutReq, now, writeFailures>>
    /\ Rendered({"avatars"})
----------------------------------------------------------------------------
(* Navigation and gestures. *)

WheelThreshold == 30
SwipeThreshold == 40

Abs(n) == IF n < 0 THEN -n ELSE n

\* an updater that stops at the ends instead of wrapping
cycleIndexClamped(prev, direction, list) ==
    LET len == IF Len(list) = 0 THEN 1 ELSE Len(list)
    IN  IF prev + direction >= len THEN len - 1
        ELSE IF prev + direction < 0 THEN 0
        ELSE prev + direction

\* lines 366-373: the updater of cycleVideo
cycleIndex(prev, direction, list) ==
    LET len == IF Len(list) = 0 THEN 1 ELSE Len(list)
    IN  (prev + direction + len) % len

\* the run of consecutive next operations, for the history variable
NextRun(direction) ==
    IF direction # 1 THEN NoRun
    ELSE IF run.kind = "next" /\ run.n < MaxRun THEN [run EXCEPT !.n = @ + 1]
    ELSE [kind |-> "next", start |-> currentIndex,
          len |-> Len(FilteredList(catalog, activeTab)), n |-> 1]

NavUnchanged ==
    UNCHANGED <<catalog, store, currentUser, likes, userLikes, comments, avatars,
                authError, authSuccess, authLoading, initAuth, authReq, logoutReq,
                avatarRead, now, writeFailures>>

\* lines 365-374, called by onNext / onPrev (lines 670-671, 729-737)
cycleVideo(direction) ==
    /\ Live
    /\ CurrentVideoOf(catalog, activeTab, currentIndex) # Null
    /\ currentIndex' = cycleIndex(currentIndex, direction,
                                  FilteredList(catalog, activeTab))
    /\ run' = NextRun(direction)
    /\ last' = Did("cycleVideo", IF direction = 1 THEN "next" ELSE "prev", "")
    /\ UNCHANGED <<activeTab, touchStart>>
    /\ NavUnchanged
    /\ Rendered(IF currentIndex' # currentIndex THEN {"index"} ELSE {})

\* lines 632-646: the tab buttons
setActiveTab(tab) ==
    /\ Live
    /\ activeTab' = tab
    /\ run' = NoRun
    /\ last' = Did("setActiveTab", tab, "click")
    /\ UNCHANGED <<currentIndex, touchStart>>
    /\ NavUnchanged
    /\ Rendered(IF activeTab' # activeTab THEN {"index"} ELSE {})

\* lines 377-382: the tab a wheel event of deltaY leads to
wheelTab(deltaY, tab) ==
    IF Abs(deltaY) < WheelThreshold THEN tab
    ELSE IF deltaY > 0 /\ tab = "trending" THEN "your"
    ELSE IF deltaY < 0 /\ tab = "your" THEN "trending"
    ELSE tab

DeltaYs == {-30, -29, 29, 30}

handleWheel(deltaY) ==
    /\ Live
    /\ activeTab' = wheelTab(deltaY, activeTab)
    /\ run' = NoRun
    /\ last' = Did("handleWheel", IF deltaY > 0 THEN "down" ELSE "up", "")
    /\ UNCHANGED <<currentIndex, touchStart>>
    /\ NavUnchanged
    /\ Rendered(IF activeTab' # activeTab THEN {"index"} ELSE {})

Coords == {0, 40, 41}

\* lines 385-388
handleTouchStart(x, y) ==
    /\ Live
    /\ touchStart' = [x |-> x, y |-> y]
    /\ run' = NoRun
    /\ last' = Did("handleTouchStart", "", "")
    /\ UNCHANGED <<activeTab, currentIndex>>
    /\ NavUnchanged
    /\ Rendered({})

\* a swipe that reads the sign of dy as handleWheel reads the sign of deltaY
touchGestureLikeWheel(dx, dy, tab) ==
    IF Abs(dy) > Abs(dx) /\ Abs(dy) > SwipeThreshold
    THEN IF dy > 0 /\ tab = "trending" THEN [kind |-> "tab", tab |-> "your"]
         ELSE IF dy < 0 /\ tab = "your" THEN [kind |-> "tab", tab |-> "trending"]
         ELSE [kind |-> "none"]
    ELSE IF Abs(dx) > SwipeThreshold
    THEN [kind |-> "cycle", direction |-> IF dx < 0 THEN 1 ELSE -1]
    ELSE [kind |-> "none"]

\* lines 400-414: "tab" with the tab to show, "cycle" with the direction, or "none"
touchGesture(dx, dy, tab) ==
    IF Abs(dy) > Abs(dx) /\ Abs(dy) > SwipeThreshold
    THEN IF dy > 0 /\ tab = "your" THEN [kind |-> "tab", tab |-> "trending"]
         ELSE IF dy < 0 /\ tab = "trending" THEN [kind |-> "tab", tab |-> "your"]
         ELSE [kind |-> "none"]
    ELSE IF Abs(dx) > SwipeThreshold
    THEN [kind |-> "cycle", direction |-> IF dx < 0 THEN 1 ELSE -1]
    ELSE [kind |-> "none"]

\* lines 390-417
handleTouchEnd(x, y) ==
    /\ Live
    /\ touchStart # Null
    /\ LET g == touchGesture(x - touchStart.x, y - touchStart.y, activeTab)
       IN  /\ activeTab' = IF g.kind = "tab" THEN g.tab ELSE activeTab
           /\ currentIndex' = IF g.kind = "cycle"
                              THEN cycleIndex(currentIndex, g.direction,
                                              FilteredList(catalog, activeTab))
                              ELSE currentIndex
           /\ run' = IF g.kind = "cycle" THEN NextRun(g.direction) ELSE NoRun
           /\ last' = [op |-> "handleTouchEnd", arg |-> g.kind,
                       outcome |-> IF y - touchStart.y > 0 THEN "down"
                                   ELSE IF y - touchStart.y < 0 THEN "up" ELSE "",
                       dx |-> x - touchStart.x, dy |-> y - touchStart.y]
    /\ touchStart' = Null
    /\ NavUnchanged
    /\ Rendered(IF activeTab' # activeTab \/ currentIndex' # currentIndex
                THEN {"index"} ELSE {})

----------------------------------------------------------------------------
(* The specifications. *)

AuthActions ==
    \/ \E mode \in {"login", "signup"}, e \in Emails, p \in Passwords :
          handleAuthSubmit(mode, e, p)
    \/ \E outcome \in {"error", "user", "nouser", "reject"} : authSubmitResolve(outcome)
    \/ \E outcome \in {"none"} \cup { u.id : u \in AuthUsers } : initAuthResolve(outcome)
    \/ \E session \in {"none"} \cup { u.id : u \in AuthUsers } : onAuthStateChange(session)
    \/ handleLogout
    \/ \E outcome \in {"ok", "error", "reject"} : handleLogoutResolve(outcome)

NavActions ==
    \/ \E direction \in {1, -1} : cycleVideo(direction)
    \/ \E tab \in {"trending", "your"} : setActiveTab(tab)
    \/ \E deltaY \in DeltaYs : handleWheel(deltaY)
    \/ \E x \in Coords, y \in Coords : handleTouchStart(x, y)
    \/ \E x \in Coords, y \in Coords : handleTouchEnd(x, y)

Next ==
    \/ FlushEffects
    \/ Reload
    \/ AuthActions
    \/ \E v \in VideoIds : toggleLike(v)
    \/ \E v \in VideoIds, text \in Texts : handleAddComment(v, text)
    \/ \E text \in Texts : handleSubmit(text)
    \/ Tick
    \/ \E hasFile \in BOOLEAN : handleAvatarChange(hasFile)
    \/ avatarOnLoad
    \/ NavActions

Spec == Init /\ [][Next]_vars
----------------------------------------------------------------------------
(* Scenarios: the same actions on fewer inputs.  Likes, comments, avatars and *)
(* navigation share no state but currentUser, so each is explored with the    *)
(* operations that touch it.                                                   *)

UserEmails == { u.email : u \in AuthUsers }
LikeVideos == { ALL_VIDEOS[1].id, ALL_VIDEOS[2].id }
CommentVideos == { ALL_VIDEOS[1].id, ALL_VIDEOS[2].id }

\* sign-in, sign-out and like toggles in one page load on an empty store
NextLikes ==
    \/ FlushEffects
    \/ \E e \in UserEmails : handleAuthSubmit("login", e, <<"pw">>)
    \/ authSubmitResolve("user")
    \/ handleLogout
    \/ handleLogoutResolve("ok")
    \/ \E v \in LikeVideos : toggleLike(v)

SpecLikes == Init /\ [][NextLikes]_vars

\* the same, with page reloads
NextLikesReload ==
    \/ NextLikes
    \/ Reload

SpecLikesReload == Init /\ [][NextLikesReload]_vars

\* comments by the users the collaborator announces
NextComments ==
    \/ FlushWritten
    \/ \E session \in {"none"} \cup { u.id : u \in AuthUsers } : onAuthStateChange(session)
    \/ \E v \in CommentVideos, text \in Texts : handleAddComment(v, text)
    \/ \E text \in Texts : handleSubmit(text)
    \/ handleLogout
    \/ handleLogoutResolve("ok")
    \/ Tick

SpecComments == Init /\ [][NextComments]_vars

\* authentication alone
NextAuth ==
    \/ FlushEffects
    \/ AuthActions

SpecAuth == Init /\ [][NextAuth]_vars

\* comments and the list the card shows of them
NextPresent ==
    \/ NextComments
    \/ \E v \in CommentVideos : commentsForVideo(v)

SpecPresent == Init /\ [][NextPresent]_vars

\* a page load on a store someone else has written: every entry is missing,
\* empty, not JSON, JSON of another shape, or the serialisation of a value
SampleOf(key) ==
    CASE key = LIKES_KEY -> Obj([v \in {ALL_VIDEOS[1].id} |-> 1])
      [] key = USER_LIKES_KEY -> Obj([u \in {<<"alice">>} |-> <<ALL_VIDEOS[1].id>>])
      [] key = COMMENTS_KEY ->
            Arr(<<[id |-> <<ALL_VIDEOS[1].id, 0>>, videoId |-> ALL_VIDEOS[1].id,
                   author |-> <<"bob">>, text |-> <<"nice">>, createdAt |-> 0]>>)
      [] OTHER -> Obj([i \in {"u1"} |-> DataUrl])

DefaultOf(key) == IF key = COMMENTS_KEY THEN Arr(<<>>) ELSE Obj(EmptyMap)

RawKinds == {"missing", "empty", "garbage", "null", "number", "value"}

RawOf(key, kind) ==
    CASE kind = "missing" -> Missing
      [] kind = "empty" -> EmptyText
      [] kind = "garbage" -> Garbage
      [] kind = "null" -> JsonText(Stringify(Null))
      [] kind = "number" -> JsonText(Stringify(JNum))
      [] OTHER -> JsonText(Stringify(SampleOf(key)))

InitStored ==
    /\ catalog = ALL_VIDEOS
    /\ \E kind \in [StoreKeys -> RawKinds] :
          store = [k \in StoreKeys |-> RawOf(k, kind[k])]
    /\ now = 0
    /\ writeFailures = 0
    /\ Mounted

NextHydrate ==
    \/ FlushEffects
    \/ initAuthResolve("u1")
    \/ toggleLike(ALL_VIDEOS[1].id)
    \/ handleAddComment(ALL_VIDEOS[1].id, <<"nice">>)

SpecHydrate == InitStored /\ [][NextHydrate]_vars

\* navigation alone, over catalogs of every shape
InitNav ==
    /\ catalog \in Catalogs
    /\ store = EmptyStore
    /\ now = 0
    /\ writeFailures = 0
    /\ Mounted

NextNav ==
    \/ FlushEffects
    \/ NavActions

SpecNav == InitNav /\ [][NextNav]_vars
----------------------------------------------------------------------------
(* Properties. *)

\* the number of usernames whose list in ul holds videoId
Likers(ul, videoId) ==
    Cardinality({ u \in DOMAIN ul.m : Includes(ul.m[u], videoId) })

\* the videos username likes in ul
LikedSet(ul, username) == Range(Get(ul, username, <<>>))

\* C1: in one page load on an empty store, under every interleaving of
\* sign-in, sign-out and toggleLike, the like count of every video (0 when
\* absent) is the number of usernames whose list holds it, and is never negative.
C1_CountIsLikers ==
    \A v \in VideoIds :
        /\ Get(likes, v, 0) >= 0
        /\ Get(likes, v, 0) = Likers(userLikes, v)

\* two users like one video, and another video was liked and unliked again,
\* after a sign-out
C1_Witness ==
    /\ \E v \in VideoIds : Get(likes, v, 0) = 2
    /\ \E v \in VideoIds : v \in DOMAIN likes.m /\ likes.m[v] = 0
    /\ currentUser = Null

\* the values a run of two toggles started from
RunRestored ==
    /\ Get(likes, run.v, 0) = Get(run.likes, run.v, 0)
    /\ LikedSet(userLikes, run.username) = LikedSet(run.userLikes, run.username)
    /\ \A v \in VideoIds \ {run.v} : Get(likes, v, 0) = Get(run.likes, v, 0)
    /\ \A u \in (DOMAIN userLikes.m \cup DOMAIN run.userLikes.m) \ {run.username} :
          LikedSet(userLikes, u) = LikedSet(run.userLikes, u)

\* C2 as claimed: after two consecutive toggleLike(v) by one user, the count of
\* v and the user's liked set are what they were, and nothing else changed.
C2_AsClaimed == (run.kind = "toggle" /\ run.n = 2) => RunRestored

\* what does hold of two toggles: they restore a run that starts where the
\* count of v is at least 1 if the user already likes v, which every state of
\* a page load on an empty store is.
C2_TwoTogglesRestore ==
    (/\ run.kind = "toggle"
     /\ run.n = 2
     /\ (Includes(Get(run.userLikes, run.username, <<>>), run.v)
            => Get(run.likes, run.v, 0) >= 1))
    => RunRestored

\* a user who liked the video unlikes it and likes it again, while another
\* user likes it too
C2_Witness ==
    /\ run.kind = "toggle"
    /\ run.n = 2
    /\ Includes(Get(run.userLikes, run.username, <<>>), run.v)
    /\ Get(run.likes, run.v, 0) = 2

\* C3: a toggleLike while CurrentUser is null changes neither likes nor
\* userLikes, sets the "logged in to like" error and clears the success message.
C3_LikeRejectedWhenSignedOut ==
    [][(last'.op = "toggleLike" /\ currentUser = Null)
        => /\ last'.outcome = "rejected"
           /\ likes' = likes
           /\ userLikes' = userLikes
           /\ authError' = MsgLikeLogin
           /\ authSuccess' = NoMsg]_vars

\* a like is rejected after a user liked a video and signed out
C3_Witness ==
    /\ last.op = "toggleLike"
    /\ last.outcome = "rejected"
    /\ currentUser = Null
    /\ \E v \in VideoIds : Get(likes, v, 0) = 1
    /\ authError = MsgLikeLogin

\* C8 as claimed: the stored count map and the stored membership map agree.
C8_StoredMapsAgree ==
    LET lk == loadFromStorage(store, LIKES_KEY, Obj(EmptyMap))
        ul == loadFromStorage(store, USER_LIKES_KEY, Obj(EmptyMap))
    IN  \A v \in VideoIds : Get(lk, v, 0) = Likers(ul, v)

\* t is s without its leading and trailing spaces
IsTrimOf(t, s) ==
    /\ t = <<>> \/ (t[1] # Space /\ t[Len(t)] # Space)
    /\ \E i \in 0..Len(s) :
          /\ i + Len(t) <= Len(s)
          /\ SubSeq(s, i + 1, i + Len(t)) = t
          /\ \A n \in 1..Len(s) : (n <= i \/ n > i + Len(t)) => s[n] = Space

IsBlank(s) == \A i \in DOMAIN s : s[i] = Space

CommentsOf(cm, videoId) == { i \in DOMAIN cm.a : cm.a[i].videoId = videoId }

\* C4: handleAddComment(v, text) by a signed-in user with text that is not
\* blank appends one comment with videoId v, the caller's username and the
\* trimmed text, so v has one comment more; and no step of any operation
\* edits, removes or moves a comment already in the list.
C4_AddCommentAppendsOne ==
    [][/\ (last'.op = "handleAddComment" /\ currentUser # Null /\ ~IsBlank(last'.text))
            => /\ last'.outcome = "added"
               /\ Len(comments'.a) = Len(comments.a) + 1
               /\ LET c == comments'.a[Len(comments'.a)]
                  IN  /\ c.videoId = last'.arg
                      /\ c.author = currentUser.username
                      /\ IsTrimOf(c.text, last'.text)
               /\ Cardinality(CommentsOf(comments', last'.arg))
                    = Cardinality(CommentsOf(comments, last'.arg)) + 1
       /\ Len(comments'.a) >= Len(comments.a)
       /\ SubSeq(comments'.a, 1, Len(comments.a)) = comments.a]_vars

\* two users have commented, the second with text that had spaces around it
C4_Witness ==
    /\ last.op = "handleAddComment"
    /\ last.outcome = "added"
    /\ last.text = <<Space, "nice", Space>>
    /\ Len(comments.a) = 2
    /\ comments.a[1].author # comments.a[2].author
    /\ comments.a[2].text = <<"nice">>

\* C5: handleAddComment leaves the list alone when it rejects: without a user
\* it sets the "logged in to comment" error whatever the text; with a user and
\* blank text it sets no message.
C5_AddCommentRejections ==
    [][/\ (last'.op = "handleAddComment" /\ currentUser = Null)
            => /\ last'.outcome = "rejected"
               /\ comments' = comments
               /\ authError' = MsgCommentLogin
               /\ authSuccess' = NoMsg
       /\ (last'.op = "handleAddComment" /\ currentUser # Null /\ IsBlank(last'.text))
            => /\ last'.outcome = "empty"
               /\ comments' = comments
               /\ authError' = authError
               /\ authSuccess' = authSuccess]_vars

\* blank text from a visitor is rejected with the error, after a sign-out
C5_Witness ==
    /\ last.op = "handleAddComment"
    /\ last.outcome = "rejected"
    /\ IsBlank(last.text)
    /\ authError = MsgCommentLogin
    /\ Len(comments.a) = 1

\* C6 as claimed: three consecutive next operations from index 0 on a list of
\* 2 videos end at index 0.
C6_AsClaimed ==
    (run.kind = "next" /\ run.start = 0 /\ run.len = 2 /\ run.n = 3)
        => currentIndex = 0

\* C6, amended: n consecutive next operations from a valid index start on a
\* list of len videos end at (start + n) modulo len: three of them from 0
\* on 2 videos end at 1.
C6_NextWrapsModulo ==
    (run.kind = "next" /\ run.len > 0 /\ run.start < run.len)
        => currentIndex = (run.start + run.n) % run.len

C6_Witness ==
    /\ run.kind = "next"
    /\ run.start = 0
    /\ run.len = 2
    /\ run.n = 3
    /\ currentIndex = 1

IndexInRange ==
    LET list == FilteredList(catalog, activeTab)
    IN  list # <<>> => (0 <= currentIndex /\ currentIndex < Len(list))

\* C7 as claimed: whenever the filtered list is not empty, currentIndex is in
\* range, the state right after a tab switch included.
C7_AsClaimed == IndexInRange

\* C7, amended: currentIndex is in range whenever the filtered list is not
\* empty and the index-validity effect of the last commit has run, and always
\* for the catalog of the program, whose two lists are equally long; while that
\* effect is pending after a tab switch the old index may be out of range, the
\* video shown is then the first of the list, and the effect sets the index to 0.
C7_IndexInRangeAfterEffect ==
    /\ "index" \notin pending => IndexInRange
    /\ catalog = ALL_VIDEOS => IndexInRange
    /\ ~IndexInRange
          => /\ last.op \in {"setActiveTab", "handleWheel", "handleTouchEnd"}
             /\ CurrentVideoOf(catalog, activeTab, currentIndex)
                   = FilteredList(catalog, activeTab)[1]
             /\ indexEffect(currentIndex, FilteredList(catalog, activeTab)) = 0

\* the effect has reset the index after a switch to a shorter list
C7_Witness ==
    /\ last.op = "effects"
    /\ activeTab = "your"
    /\ currentIndex = 0
    /\ pending = {"index"}
    /\ Len(FilteredList(catalog, "your")) = 1
    /\ Len(FilteredList(catalog, "trending")) = 3

ValueAt(lk, ul, cm, av, key) ==
    CASE key = LIKES_KEY -> lk
      [] key = USER_LIKES_KEY -> ul
      [] key = COMMENTS_KEY -> cm
      [] OTHER -> av

WellFormedFor(raw, key) ==
    /\ raw.r = "json"
    /\ raw.j.k = Stringify(DefaultOf(key)).k

\* the part of C9 about entries that are well formed, missing or unparseable:
\* hydration loads the value serialised, or the empty default
HydrationOfTextOrNothing ==
    [][(last'.op = "effects" /\ last'.outcome = "hydrated")
        => \A k \in StoreKeys :
              LET val == ValueAt(likes', userLikes', comments', avatars', k)
              IN  /\ WellFormedFor(store[k], k) => val = SampleOf(k)
                  /\ store[k].r # "json" => val = DefaultOf(k)]_vars

\* C9 as claimed: hydration loads a well-formed entry as the value serialised
\* and any other entry as the empty default, and no render throws.
C9_AsClaimed ==
    [][/\ (last'.op = "effects" /\ last'.outcome = "hydrated")
            => \A k \in StoreKeys :
                  LET val == ValueAt(likes', userLikes', comments', avatars', k)
                  IN  IF WellFormedFor(store[k], k)
                      THEN store[k] = JsonText(Stringify(val))
                      ELSE val = DefaultOf(k)
       /\ ~crashed']_vars

\* C10 as claimed: when handleLogout ends, CurrentUser is null and the
\* "logged out" message is set, whatever signOut did.
C10_AsClaimed ==
    (last.op = "handleLogout" /\ last.outcome # "pending")
        => (currentUser = Null /\ authSuccess = MsgLoggedOut)

\* what holds of the list shown: it is the comments of the video, each once,
\* in ascending order of createdAt
ShownSortedByCreatedAt ==
    last.op = "commentsForVideo"
        => /\ Range(last.shown) = CommentsOf(comments, last.arg)
           /\ Len(last.shown) = Cardinality(CommentsOf(comments, last.arg))
           /\ \A i, j \in DOMAIN last.shown :
                 i < j => comments.a[last.shown[i]].createdAt
                            <= comments.a[last.shown[j]].createdAt

\* C11 as claimed: the comments shown for a video are its stored comments in
\* ascending order of createdAt, and two comments of one createdAt are shown in
\* the order they were added.
C11_AsClaimed ==
    /\ ShownSortedByCreatedAt
    /\ last.op = "commentsForVideo"
          => \A i, j \in DOMAIN last.shown :
                (/\ i < j
                 /\ comments.a[last.shown[i]].createdAt
                      = comments.a[last.shown[j]].createdAt)
                => last.shown[i] < last.shown[j]

\* the step is a touch gesture whose vertical displacement dominates the
\* horizontal one and exceeds the swipe threshold
VerticalSwipe ==
    /\ last'.op = "handleTouchEnd"
    /\ Abs(last'.dy) > Abs(last'.dx)
    /\ Abs(last'.dy) > SwipeThreshold

SignedOut == currentUser = Null /\ authSuccess = MsgLoggedOut

UserIds == { u.id : u \in AuthUsers }

\* C13 as claimed: once a sign-out has completed, only a sign-in or sign-up
\* submitted after it, or a session notified by the collaborator, sets
\* CurrentUser: the answer to a request issued before the sign-out never does.
C13_AsClaimed ==
    [][(SignedOut /\ currentUser' # Null) => last'.op = "onAuthStateChange"]_vars

\* C13, amended: CurrentUser goes from null to a user only by a session the
\* collaborator notifies, by the answer of the startup lookup, or by the
\* answer of a submitted sign-in or sign-up; and such an answer sets
\* CurrentUser also when it arrives after a sign-out that completed while the
\* request was in flight, as nothing cancels the request.
C13_LateAnswerSignsIn ==
    [][/\ (currentUser = Null /\ currentUser' # Null)
            => \/ last'.op = "onAuthStateChange" /\ last'.outcome \in UserIds
               \/ last'.op = "initAuth" /\ last'.outcome \in UserIds
               \/ last'.op = "handleAuthSubmit" /\ last'.outcome = "user"
       /\ (SignedOut /\ last'.op = "initAuth" /\ last'.outcome \in UserIds)
            => (currentUser' # Null /\ currentUser'.id = last'.outcome)
       /\ (SignedOut /\ last'.op = "handleAuthSubmit" /\ last'.outcome = "user")
            => (currentUser' # Null /\ currentUser'.email = authReq.email)]_vars

\* the startup lookup has answered with alice after her sign-out completed
C13_Witness ==
    /\ last.op = "initAuth"
    /\ last.outcome = "u1"
    /\ authSuccess = MsgLoggedOut
    /\ currentUser # Null
    /\ currentUser.id = "u1"
    /\ logoutReq = 0

\* every entry of the store is the serialisation of a value: a valid state S
StoreHoldsSample == \A k \in StoreKeys : store[k] = RawOf(k, "value")

\* C14 as claimed: when the store holds a valid state at mount, the effects of
\* the mount (the hydration read and the four persist effects) leave every
\* entry as it is: the empty initial value is not written over it.
C14_AsClaimed ==
    [][(last'.op = "effects" /\ last'.outcome = "hydrated" /\ StoreHoldsSample)
        => \A k \in StoreKeys : store'[k] = store[k]]_vars

\* what holds of the startup: the state hydrated is the stored one, and the
\* effects of the re-render that follows write it back where the write goes
\* through
StartupWritesBack ==
    [][(last.op = "effects" /\ last.outcome = "hydrated" /\ last'.op = "effects")
        => \A k \in StoreKeys :
              \/ store'[k] = JsonText(Stringify(StateOf(k)))
              \/ store'[k] = store[k] /\ writeFailures' > writeFailures]_vars

====
